---- MODULE Spec2Model ----
(***************************************************************************)
(* Order validation and strategy execution of the Binance futures trading  *)
(* bot: the ExchangeInfo singleton cache, validate_input, and the market,   *)
(* limit, stop-limit, simulated OCO, TWAP and grid strategies, run as       *)
(* concurrent invocations of one process (the /trade endpoint of app.py is  *)
(* a synchronous handler, so the server runs it on worker threads).         *)
(*                                                                         *)
(* Quantities and prices are Python floats (IEEE-754 binary64).  They are   *)
(* modelled bit-exactly: a float is a 53-bit mantissa held as a natural     *)
(* number in base-2^15 limbs and a binary exponent, and float(), -, +, *,   *)
(* / and % round to nearest, ties to even, as CPython does.                 *)
(***************************************************************************)
EXTENDS Integers, Sequences, FiniteSets, TLC

(***************************************************************************)
(* Natural numbers of arbitrary size: little-endian sequences of limbs in   *)
(* base 2^15, without leading zero limbs (zero is the empty sequence).      *)
(***************************************************************************)
Base == 2^15

RECURSIVE IntBitLen(_)
IntBitLen(n) == IF n = 0 THEN 0 ELSE 1 + IntBitLen(n \div 2)

\* bits in one limb
LimbBits == IntBitLen(Base - 1)

Pow2(k) == 2^k

RECURSIVE BNorm(_)
BNorm(a) ==
    IF Len(a) = 0 THEN << >>
    ELSE IF a[Len(a)] = 0 THEN BNorm(SubSeq(a, 1, Len(a) - 1))
    ELSE a

RECURSIVE BFromInt(_)
BFromInt(n) == IF n = 0 THEN << >> ELSE <<n % Base>> \o BFromInt(n \div Base)

Limb(a, i) == IF i >= 1 /\ i <= Len(a) THEN a[i] ELSE 0

\* bit i (0 is the least significant) of a
Bit(a, i) == (Limb(a, (i \div LimbBits) + 1) \div Pow2(i % LimbBits)) % 2

BBitLen(a) == IF Len(a) = 0 THEN 0 ELSE LimbBits * (Len(a) - 1) + IntBitLen(a[Len(a)])

RECURSIVE BCmpFrom(_, _, _)
BCmpFrom(a, b, i) ==
    IF i = 0 THEN 0
    ELSE IF a[i] < b[i] THEN -1
    ELSE IF a[i] > b[i] THEN 1
    ELSE BCmpFrom(a, b, i - 1)

\* -1, 0, 1 as a < b, a = b, a > b
BCmp(a, b) ==
    IF Len(a) < Len(b) THEN -1
    ELSE IF Len(a) > Len(b) THEN 1
    ELSE BCmpFrom(a, b, Len(a))

RECURSIVE BAddFrom(_, _, _, _)
BAddFrom(a, b, i, carry) ==
    IF i > Len(a) /\ i > Len(b)
    THEN IF carry = 0 THEN << >> ELSE <<carry>>
    ELSE LET s == Limb(a, i) + Limb(b, i) + carry
         IN  <<s % Base>> \o BAddFrom(a, b, i + 1, s \div Base)

BAdd(a, b) == BAddFrom(a, b, 1, 0)

RECURSIVE BSubFrom(_, _, _, _)
BSubFrom(a, b, i, borrow) ==
    IF i > Len(a) THEN << >>
    ELSE LET d == a[i] - Limb(b, i) - borrow
         IN  IF d < 0 THEN <<d + Base>> \o BSubFrom(a, b, i + 1, 1)
             ELSE <<d>> \o BSubFrom(a, b, i + 1, 0)

\* a - b for a >= b
BSub(a, b) == BNorm(BSubFrom(a, b, 1, 0))

RECURSIVE BMulSmallFrom(_, _, _, _)
BMulSmallFrom(a, k, i, carry) ==
    IF i > Len(a)
    THEN IF carry = 0 THEN << >> ELSE <<carry>>
    ELSE LET p == a[i] * k + carry
         IN  <<p % Base>> \o BMulSmallFrom(a, k, i + 1, p \div Base)

\* a * k for 0 <= k < Base
BMulSmall(a, k) == IF k = 0 THEN << >> ELSE BMulSmallFrom(a, k, 1, 0)

Zeros(n) == [i \in 1..n |-> 0]

\* a * 2^k
BShl(a, k) ==
    IF Len(a) = 0 THEN << >>
    ELSE Zeros(k \div LimbBits) \o BMulSmall(a, Pow2(k % LimbBits))

\* a \div 2^k
BShr(a, k) ==
    LET w == k \div LimbBits
        s == k % LimbBits
        n == Len(a) - w
    IN  IF n <= 0 THEN << >>
        ELSE BNorm([i \in 1..n |->
                 (a[i + w] \div Pow2(s))
                 + (Limb(a, i + w + 1) % Pow2(s)) * Pow2(LimbBits - s)])

RECURSIVE BMulFrom(_, _, _)
BMulFrom(a, b, i) ==
    IF i > Len(b) THEN << >>
    ELSE BAdd(Zeros(i - 1) \o BMulSmall(a, b[i]), BMulFrom(a, b, i + 1))

BMul(a, b) == BNorm(BMulFrom(a, b, 1))

\* The int of a nat below Base^2
BToInt(a) == Limb(a, 1) + Base * Limb(a, 2)

RECURSIVE DigitFix(_, _, _)
DigitFix(q, rem, d) ==
    IF BCmp(rem, d) >= 0 THEN DigitFix(q + 1, BSub(rem, d), d) ELSE [q |-> q, r |-> rem]

\* floor(n / d) and n % d from an estimate q of the quotient that is not too large
DigitFrom(n, d, q) == DigitFix(q, BSub(n, BMulSmall(d, q)), d)

\* floor(n / d) and n % d for n < Base * d, where d has top + LimbBits bits: the
\* quotient of the leading bits of n by those of d, plus one, is at most
\* floor(n / d), and short of it by 3 at most
DigitOf(n, d, top) ==
    DigitFrom(n, d, BToInt(BShr(n, top)) \div (BToInt(BShr(d, top)) + 1))

\* One step of long division: floor(r * 2^w / d) and (r * 2^w) % d, for r < d
\* and w <= LimbBits
DivDigit(r, d, w) == DigitOf(BShl(r, w), d, BBitLen(d) - LimbBits)

\* Long division by limbs: q is the quotient so far, r the remainder, and j
\* more limbs of the quotient are to come.  Gives the quotient and whether a
\* remainder is left
RECURSIVE BDivStep(_, _, _, _)
BDivNext(q, digit, d, j) == BDivStep(BNorm(<<digit.q>> \o q), digit.r, d, j)

BDivStep(q, r, d, j) ==
    IF j = 0 THEN [q |-> q, inexact |-> Len(r) # 0]
    ELSE BDivNext(q, DivDigit(r, d, LimbBits), d, j - 1)

(***************************************************************************)
(* Python floats.  A float is [m, e], standing for m * 2^e, with m = 0 (and *)
(* e = 0) or 2^52 <= m < 2^53.  Only non-negative floats in the normal      *)
(* range occur in the model.                                               *)
(***************************************************************************)
MantBits == 53

FZero == [m |-> << >>, e |-> 0]

FIsZero(x) == Len(x.m) = 0

\* q * 2^e for a q of MantBits bits or, after a carry, one more
FRenorm(q, e) ==
    IF BBitLen(q) > MantBits
    THEN [m |-> BShr(q, 1), e |-> e + 1]
    ELSE [m |-> q, e |-> e]

FRoundUp(q, e, up) == IF up THEN FRenorm(BAdd(q, <<1>>), e) ELSE [m |-> q, e |-> e]

\* q is m without its s low bits: round to nearest, ties to even
FRoundTie(q, m, e, inexact, s) ==
    FRoundUp(q, e + s,
             /\ Bit(m, s - 1) = 1
             /\ \/ inexact
                \/ BCmp(BShl(BShr(m, s - 1), s - 1), m) # 0
                \/ Bit(q, 0) = 1)

FRoundBy(m, e, inexact, s) ==
    IF Len(m) = 0 THEN FZero
    ELSE IF s <= 0 THEN [m |-> BShl(m, -s), e |-> e + s]
    ELSE FRoundTie(BShr(m, s), m, e, inexact, s)

\* m * 2^e rounded to MantBits bits, to nearest, ties to even; inexact says
\* that m is itself a truncation of the value to be rounded
FRound(m, e, inexact) == FRoundBy(m, e, inexact, BBitLen(m) - MantBits)

FRoundQuot(qr, e) == FRound(qr.q, e, qr.inexact)

\* n * 2^e / d from q0 = floor(n / d), r0 = n % d and j further limbs of the
\* quotient; d is first scaled to MantBits bits, and r0 with it
FQuotLimbs(q0, r0, d, e, j) == FRoundQuot(BDivStep(q0, r0, d, j), e - j * LimbBits)

FQuotBy(q0, r0, d, e, k) ==
    FQuotLimbs(q0, BShl(r0, MantBits - BBitLen(d)), BShl(d, MantBits - BBitLen(d)), e,
               (k + LimbBits - 1) \div LimbBits)

\* quotient bits to compute after an integer part q0, for MantBits + 2 significant ones
QuotBits(q0, lenr0, lend) ==
    IF q0 > 0 THEN MantBits + 2 ELSE MantBits + 2 + lend - lenr0

\* float("n/d"): the decimal literal with numerator n and denominator d > 0
FromDecimal(n, d) ==
    IF n = 0 THEN FZero
    ELSE FQuotBy(BFromInt(n \div d), BFromInt(n % d), BFromInt(d), 0,
                 QuotBits(n \div d, BBitLen(BFromInt(n % d)), BBitLen(BFromInt(d))))

\* float(n) for an int n >= 0
FromInt(n) == FRound(BFromInt(n), 0, FALSE)

\* -1, 0, 1 as x < y, x = y, x > y
FCmp(x, y) ==
    IF FIsZero(x) THEN (IF FIsZero(y) THEN 0 ELSE -1)
    ELSE IF FIsZero(y) THEN 1
    ELSE IF x.e < y.e THEN -1
    ELSE IF x.e > y.e THEN 1
    ELSE BCmp(x.m, y.m)

FLt(x, y) == FCmp(x, y) < 0

FMinExp(x, y) == IF x.e < y.e THEN x.e ELSE y.e

\* x + y
FAdd(x, y) ==
    IF FIsZero(x) THEN y
    ELSE IF FIsZero(y) THEN x
    ELSE FRound(BAdd(BShl(x.m, x.e - FMinExp(x, y)), BShl(y.m, y.e - FMinExp(x, y))),
                FMinExp(x, y), FALSE)

\* x - y for x >= y
FSub(x, y) ==
    IF FIsZero(y) THEN x
    ELSE FRound(BSub(BShl(x.m, x.e - FMinExp(x, y)), BShl(y.m, y.e - FMinExp(x, y))),
                FMinExp(x, y), FALSE)

\* x * y
FMul(x, y) ==
    IF FIsZero(x) \/ FIsZero(y) THEN FZero
    ELSE FRound(BMul(x.m, y.m), x.e + y.e, FALSE)

\* x / y for y # 0: both mantissas have MantBits bits, so floor(x.m / y.m) is 0 or 1
FDiv(x, y) ==
    IF FIsZero(x) THEN FZero
    ELSE IF BCmp(x.m, y.m) >= 0
    THEN FQuotBy(<<1>>, BSub(x.m, y.m), y.m, x.e - y.e, MantBits + 2)
    ELSE FQuotBy(<< >>, x.m, y.m, x.e - y.e, MantBits + 2)

\* (r * 2^k) % d for r < d
RECURSIVE FModStep(_, _, _)
FModStep(r, d, k) ==
    IF k = 0 THEN r
    ELSE IF k < LimbBits THEN DivDigit(r, d, k).r
    ELSE FModStep(DivDigit(r, d, LimbBits).r, d, k - LimbBits)

\* x % y for x >= 0 and y > 0: the exact remainder (fmod), which is a float
FMod(x, y) ==
    IF FCmp(x, y) < 0 THEN x
    ELSE FRound(FModStep(IF BCmp(x.m, y.m) >= 0 THEN BSub(x.m, y.m) ELSE x.m,
                         y.m, x.e - y.e),
                y.e, FALSE)

(***************************************************************************)
(* Values of the program.  None is Python's None.  A decimal literal n/d    *)
(* (d a power of ten) is the text of a number as the exchange sends it or   *)
(* as the user gives it; float() parses it.                                *)
(***************************************************************************)
None == [none |-> TRUE]

Dec(n, d) == [n |-> n, d |-> d]

\* client.futures_exchange_info(): one tradable symbol with its two filters
ExchangeData ==
    [symbols |-> <<
        [symbol  |-> "BTCUSDT",
         filters |-> <<
            [filterType |-> "PRICE_FILTER", minPrice |-> Dec(1, 100),
             maxPrice |-> Dec(100000, 1), tickSize |-> Dec(1, 100)],
            [filterType |-> "LOT_SIZE", minQty |-> Dec(1, 1000),
             maxQty |-> Dec(1000, 1), stepSize |-> Dec(1, 1000)] >>] >>]

(***************************************************************************)
(* The calls made of the program: the arguments of each strategy function,  *)
(* and of validate_input when it is called by itself, as the tests do.      *)
(***************************************************************************)
Symbols == {"BTCUSDT", "XYZUSDT"}

MarketInputs ==
    {[strategy |-> "market", symbol |-> s, side |-> "BUY", quantity |-> q] :
        s \in Symbols, q \in {Dec(2, 1000), Dec(25, 10000)}}

LimitInputs ==
    {[strategy |-> "limit", symbol |-> s, side |-> "SELL",
      quantity |-> Dec(2, 1000), price |-> p] :
        s \in Symbols, p \in {Dec(2, 100), Dec(5, 1000)}}

StopLimitInputs ==
    {[strategy |-> "stop_limit", symbol |-> t[1], side |-> "BUY",
      quantity |-> Dec(2, 1000), stop_price |-> t[3], limit_price |-> t[2]] :
        t \in {<<"BTCUSDT", Dec(2, 100), Dec(5, 100)>>,
               <<"BTCUSDT", Dec(2, 100), Dec(5, 1000)>>,
               <<"BTCUSDT", Dec(5, 1000), Dec(5, 100)>>,
               <<"BTCUSDT", Dec(0, 1), Dec(5, 100)>>,
               <<"XYZUSDT", Dec(2, 100), Dec(5, 100)>>}}

OcoInputs ==
    {[strategy |-> "oco", symbol |-> t[1], side |-> t[2], quantity |-> Dec(2, 1000),
      take_profit |-> t[3], stop_loss |-> t[4]] :
        t \in {<<"BTCUSDT", "BUY", Dec(5, 100), Dec(2, 100)>>,
               <<"BTCUSDT", "BUY", Dec(5, 1000), Dec(2, 100)>>,
               <<"BTCUSDT", "BUY", Dec(5, 100), Dec(5, 1000)>>,
               <<"BTCUSDT", "SELL", Dec(2, 100), Dec(5, 100)>>,
               <<"XYZUSDT", "BUY", Dec(5, 100), Dec(2, 100)>>}}

TwapInputs ==
    {[strategy |-> "twap", symbol |-> t[1], side |-> "BUY", total_quantity |-> t[2],
      duration_minutes |-> 1, interval_seconds |-> t[3]] :
        t \in {<<"BTCUSDT", Dec(4, 1000), 30>>, <<"BTCUSDT", Dec(5, 1000), 30>>,
               <<"BTCUSDT", Dec(4, 1000), 120>>, <<"BTCUSDT", Dec(6, 1000), 20>>,
               <<"BTCUSDT", Dec(6, 1000), 0>>, <<"XYZUSDT", Dec(4, 1000), 30>>}}

\* place_twap_order over five intervals, called by itself
TwapAloneInputs ==
    TwapInputs
    \cup {[strategy |-> "twap", symbol |-> "BTCUSDT", side |-> "BUY",
           total_quantity |-> Dec(65, 1000), duration_minutes |-> 1,
           interval_seconds |-> 12]}

GridInputs ==
    {[strategy |-> "grid", symbol |-> g[1], lower_bound |-> g[2],
      upper_bound |-> g[3], num_levels |-> g[4],
      quantity_per_level |-> Dec(2, 1000)] :
        g \in {<<"BTCUSDT", Dec(2, 100), Dec(5, 100), 2>>,
               <<"BTCUSDT", Dec(2, 100), Dec(5, 100), 1>>,
               <<"BTCUSDT", Dec(2, 100), Dec(5, 100), 0>>,
               <<"BTCUSDT", Dec(2, 100), Dec(5, 100), 3>>,
               <<"BTCUSDT", Dec(1, 100), Dec(17, 100), 3>>,
               <<"BTCUSDT", Dec(100, 1), Dec(200, 1), 3>>,
               <<"XYZUSDT", Dec(2, 100), Dec(5, 100), 2>>}}

StrategyInputs ==
    MarketInputs \cup LimitInputs \cup StopLimitInputs \cup OcoInputs
        \cup TwapInputs \cup GridInputs

\* validate_input(client, symbol, quantity, price=None) called by itself
DirectQuantities ==
    {Dec(5, 10000), Dec(1, 1000), Dec(2, 1000), Dec(25, 10000), Dec(3, 1000),
     Dec(1, 1), Dec(1000, 1), Dec(2000, 1)}

DirectPrices ==
    {None, Dec(0, 1), Dec(5, 1000), Dec(1, 100), Dec(2, 100), Dec(3, 100),
     Dec(65000, 1), Dec(65000001, 1000), Dec(100000, 1), Dec(200000, 1)}

DirectInputs ==
    {[strategy |-> "validate_input", symbol |-> s, quantity |-> q, price |-> p] :
        s \in Symbols, q \in DirectQuantities, p \in DirectPrices}

\* the fields of the arguments and of the filters that hold a number's text
Texts(r) == {r[k] : k \in DOMAIN r \ {"strategy", "symbol", "side", "filterType",
                                      "duration_minutes", "interval_seconds",
                                      "num_levels"}}

Literals ==
    (UNION {Texts(a) : a \in StrategyInputs \cup TwapAloneInputs \cup DirectInputs}
        \cup UNION {UNION {Texts(ExchangeData.symbols[s].filters[f]) :
                              f \in DOMAIN ExchangeData.symbols[s].filters} :
                       s \in DOMAIN ExchangeData.symbols})
    \ {None}

\* float(s) for every text s that occurs, computed once
FloatOf == [s \in Literals |-> FromDecimal(s.n, s.d)]

float(s) == FloatOf[s]

\* float(s) for an optional argument
OptFloat(s) == IF s = None THEN None ELSE float(s)

\* Python truth value of an optional float: None and 0.0 are false
Truthy(x) == x # None /\ ~FIsZero(x)

(***************************************************************************)
(* validate_input                                                          *)
(***************************************************************************)
\* the first of symbols, from position i on, with the symbol, or None
RECURSIVE SymbolFrom(_, _, _)
SymbolFrom(symbols, symbol, i) ==
    IF i > Len(symbols) THEN None
    ELSE IF symbols[i].symbol = symbol THEN symbols[i]
    ELSE SymbolFrom(symbols, symbol, i + 1)

\* ExchangeInfo.get_symbol_info, on the value of cls._info it reads
get_symbol_info(info, symbol) ==
    IF info # None THEN SymbolFrom(info.symbols, symbol, 1) ELSE None

\* next((f for f in filters if f['filterType'] == filterType), None), from
\* position i on
RECURSIVE FilterFrom(_, _, _)
FilterFrom(filters, filterType, i) ==
    IF i > Len(filters) THEN None
    ELSE IF filters[i].filterType = filterType THEN filters[i]
    ELSE FilterFrom(filters, filterType, i + 1)

price_filter(symbol_info) == FilterFrom(symbol_info.filters, "PRICE_FILTER", 1)

lot_size_filter(symbol_info) == FilterFrom(symbol_info.filters, "LOT_SIZE", 1)

\* the quantity checks of validate_input; "" when they pass
QuantityCheck(lot_size, quantity) ==
    IF \/ FLt(quantity, float(lot_size.minQty))
       \/ FLt(float(lot_size.maxQty), quantity)
    THEN "Invalid quantity"
    ELSE IF ~FIsZero(FMod(FSub(quantity, float(lot_size.minQty)),
                          float(lot_size.stepSize)))
    THEN "Invalid quantity step"
    ELSE ""

\* the price checks of validate_input, made when price is true; "" when they pass
PriceCheck(price_range, price) ==
    IF \/ FLt(price, float(price_range.minPrice))
       \/ FLt(float(price_range.maxPrice), price)
    THEN "Invalid price"
    ELSE IF ~FIsZero(FMod(FSub(price, float(price_range.minPrice)),
                          float(price_range.tickSize)))
    THEN "Invalid price tick size"
    ELSE ""

\* the first check that fails, of the quantity checks and then, for a true
\* price, the price checks
FirstFailure(quantity_error, price_range, price) ==
    IF quantity_error # "" THEN quantity_error
    ELSE IF Truthy(price) THEN PriceCheck(price_range, price)
    ELSE ""

FilterChecks(price_range, lot_size, quantity, price) ==
    IF price_range = None \/ lot_size = None
    THEN "Could not retrieve filters"
    ELSE FirstFailure(QuantityCheck(lot_size, quantity), price_range, price)

\* SymbolChecks without the test of the symbol found
SymbolChecks_skipped(symbol_info, quantity, price) ==
    IF symbol_info = None THEN ""
    ELSE FilterChecks(price_filter(symbol_info), lot_size_filter(symbol_info),
                      quantity, price)

SymbolChecks(symbol_info, quantity, price) ==
    IF symbol_info = None THEN "Invalid symbol"
    ELSE FilterChecks(price_filter(symbol_info), lot_size_filter(symbol_info),
                      quantity, price)

\* what validate_input logs ("" when it logs no error), from the lookup on:
\* info is the value of ExchangeInfo._info that the lookup reads
ValidationError(info, symbol, quantity, price) ==
    SymbolChecks(get_symbol_info(info, symbol), quantity, price)

Outcome(err) == [ok |-> err = "", log |-> err]

\* validate_input from the lookup on: the value it returns and the error it logs
validate_input(info, symbol, quantity, price) ==
    Outcome(ValidationError(info, symbol, quantity, price))

(***************************************************************************)
(* The numbers the strategies compute from their arguments a.               *)
(***************************************************************************)
\* num_intervals with the quotient rounded up instead of down
num_intervals_rounded_up(a) ==
    (a.duration_minutes * 60 + a.interval_seconds - 1) \div a.interval_seconds

\* place_twap_order
num_intervals(a) == (a.duration_minutes * 60) \div a.interval_seconds

quantity_per_order(a) == FDiv(float(a.total_quantity), FromInt(num_intervals(a)))

\* place_grid_orders, at level k of the loop
price_step(a) ==
    FDiv(FSub(float(a.upper_bound), float(a.lower_bound)), FromInt(a.num_levels - 1))

order_price(a, k) == FAdd(float(a.lower_bound), FMul(FromInt(k), price_step(a)))

order_side(a, k) ==
    IF FLt(order_price(a, k),
           FDiv(FAdd(float(a.lower_bound), float(a.upper_bound)), FromInt(2)))
    THEN "BUY"
    ELSE "SELL"

\* the same, computed once for the calls of the model
TwapQuantity ==
    [a \in {x \in TwapAloneInputs : x.interval_seconds # 0 /\ num_intervals(x) # 0} |->
        quantity_per_order(a)]

GridPrice ==
    [a \in {x \in GridInputs : x.num_levels > 1} |->
        [k \in 0..(a.num_levels - 1) |-> order_price(a, k)]]

GridSide ==
    [a \in {x \in GridInputs : x.num_levels > 1} |->
        [k \in 0..(a.num_levels - 1) |-> order_side(a, k)]]

\* the validations the calls of the model can ask for: symbol, quantity, price
Checks ==
    {<<a.symbol, float(a.quantity), None>> : a \in MarketInputs}
    \cup {<<a.symbol, float(a.quantity), float(a.price)>> : a \in LimitInputs}
    \cup {<<a.symbol, float(a.quantity), float(a.limit_price)>> : a \in StopLimitInputs}
    \cup {<<a.symbol, float(a.quantity), float(a.take_profit)>> : a \in OcoInputs}
    \cup {<<a.symbol, float(a.quantity), float(a.stop_loss)>> : a \in OcoInputs}
    \cup {<<a.symbol, TwapQuantity[a], None>> : a \in DOMAIN TwapQuantity}
    \cup UNION {{<<a.symbol, float(a.quantity_per_level), GridPrice[a][k]>> :
                    k \in DOMAIN GridPrice[a]} : a \in DOMAIN GridPrice}
    \cup {<<a.symbol, float(a.quantity), OptFloat(a.price)>> : a \in DirectInputs}

\* validate_input from the lookup on, computed once for each value of
\* ExchangeInfo._info and each validation
Validated ==
    [x \in {None, ExchangeData} |->
        [c \in Checks |-> validate_input(x, c[1], c[2], c[3])]]

(***************************************************************************)
(* The process.  Each invocation is one call of a strategy function (or, as *)
(* in tests/test_validation.py, of validate_input itself) running on its    *)
(* own thread; the class attributes of ExchangeInfo are shared by all.      *)
(***************************************************************************)
NumInvocations == 2

Invocations == 1..NumInvocations

VARIABLES
    instance,    \* ExchangeInfo._instance: None or the singleton object
    info,        \* ExchangeInfo._info: None or the fetched exchange data
    fetchlog,    \* outcome of every futures_exchange_info() call made, in order
    running,     \* FALSE once sys.exit(1) has ended the process
    raw_client,  \* the class of the object client.get_client() returns
    args,        \* args[i]: the arguments of invocation i
    pc,          \* pc[i]: where invocation i stands
    loc,         \* loc[i]: the local variables of invocation i
    hist,        \* hist[i]: validations, order requests, sleeps of i and signals
                 \* during them, in order
    result       \* result[i]: what invocation i returned

vars == <<instance, info, fetchlog, running, raw_client, args, pc, loc, hist, result>>

shared == <<instance, info, fetchlog, running>>

NoLocals ==
    [quantity |-> None, price |-> None, i |-> 0, n |-> 0, leg |-> "",
     side |-> "", orders |-> << >>]

Init ==
    /\ instance = None
    /\ info = None
    /\ fetchlog = << >>
    /\ running = TRUE
    /\ raw_client \in {"binance.client.Client", "MockClient"}
    /\ args \in [Invocations -> StrategyInputs]
    /\ pc = [i \in Invocations |-> "start"]
    /\ loc = [i \in Invocations |-> NoLocals]
    /\ hist = [i \in Invocations |-> << >>]
    /\ result = [i \in Invocations |-> None]

\* invocation i stands at label, in a process that sys.exit has not ended
At(i, label) == running /\ pc[i] = label

Goto(i, label) == pc' = [pc EXCEPT ![i] = label]

\* the invocation returns value to its caller
Return(i, value) ==
    /\ pc' = [pc EXCEPT ![i] = "done"]
    /\ result' = [result EXCEPT ![i] = value]

Record(i, event) == hist' = [hist EXCEPT ![i] = Append(@, event)]

SetLocals(i, l) == loc' = [loc EXCEPT ![i] = l]

\* the call validate_input(client, symbol, quantity, price) begins
CallValidate(i, quantity, price) ==
    /\ SetLocals(i, [loc[i] EXCEPT !.quantity = quantity, !.price = price])
    /\ Goto(i, "new_check")

(***************************************************************************)
(* ExchangeInfo.__new__, called by validate_input on every validation.  The *)
(* test of cls._instance, its assignment and the fetch are separate steps:  *)
(* other threads run between them.                                         *)
(***************************************************************************)
ExchangeInfo_new_check(i) ==
    /\ At(i, "new_check")
    /\ Goto(i, IF instance = None THEN "new_create" ELSE "lookup")
    /\ UNCHANGED <<shared, raw_client, args, loc, hist, result>>

ExchangeInfo_new_create(i) ==
    /\ At(i, "new_create")
    /\ instance' = [object |-> "ExchangeInfo"]
    /\ Goto(i, "new_fetch")
    /\ UNCHANGED <<info, fetchlog, running, raw_client, args, loc, hist, result>>

\* client.futures_exchange_info() returns: cls._info is set
ExchangeInfo_new_fetch_ok(i) ==
    /\ At(i, "new_fetch")
    /\ info' = ExchangeData
    /\ fetchlog' = Append(fetchlog, "ok")
    /\ Goto(i, "lookup")
    /\ UNCHANGED <<instance, running, raw_client, args, loc, hist, result>>

\* Whether an exception raised inside a call of invocation i is caught there:
\* every strategy function wraps its body in try/except Exception and returns
\* None from the handler; a direct call of validate_input has no handler
Raise(i, exception) ==
    IF args[i].strategy = "validate_input"
    THEN Return(i, [raised |-> exception])
    ELSE Return(i, None)

\* client.futures_exchange_info() raises.  The handler calls handle_error on
\* the object it was given, which is client.get_client(): the test's
\* MockClient defines handle_error, binance.client.Client does not, so there
\* the handler itself raises AttributeError and sys.exit(1) is not reached
ExchangeInfo_new_fetch_error(i) ==
    /\ At(i, "new_fetch")
    /\ fetchlog' = Append(fetchlog, "error")
    /\ IF raw_client = "MockClient"
       THEN /\ running' = FALSE
            /\ UNCHANGED <<pc, result>>
       ELSE /\ Raise(i, "AttributeError")
            /\ UNCHANGED running
    /\ UNCHANGED <<instance, info, raw_client, args, loc, hist>>

ExchangeInfo_new(i) ==
    \/ ExchangeInfo_new_check(i)
    \/ ExchangeInfo_new_create(i)
    \/ ExchangeInfo_new_fetch_ok(i)
    \/ ExchangeInfo_new_fetch_error(i)

\* the rest of validate_input, from get_symbol_info on, for the call in progress
Validation(i) == Validated[info][<<args[i].symbol, loc[i].quantity, loc[i].price>>]

ValidateEvent(i, v) ==
    [ev |-> "validate", symbol |-> args[i].symbol, quantity |-> loc[i].quantity,
     price |-> loc[i].price, populated |-> info # None, ok |-> v.ok, log |-> v.log]

\* client.get_client().futures_create_order(...): the request as sent, and
\* whether the exchange created the order (ok) or the call raised
OrderEvent(i, side, type, price, stopPrice, timeInForce, ok) ==
    [ev |-> "order", symbol |-> args[i].symbol, side |-> side, type |-> type,
     quantity |-> loc[i].quantity, price |-> price, stopPrice |-> stopPrice,
     timeInForce |-> timeInForce, ok |-> ok]

(***************************************************************************)
(* The single-order strategies.                                            *)
(***************************************************************************)
\* SingleOrderValidated without the test of what validate_input returned
SingleOrderValidated_unchecked(i, v) ==
    /\ Record(i, ValidateEvent(i, v))
    /\ Goto(i, "submit")
    /\ UNCHANGED result

\* what a single-order strategy does once validate_input has returned v
SingleOrderValidated(i, v) ==
    /\ Record(i, ValidateEvent(i, v))
    /\ IF ~v.ok
       THEN Return(i, None)
       ELSE Goto(i, "submit") /\ UNCHANGED result

\* SingleOrderSubmitted without the return of the order
SingleOrderSubmitted_no_return(i, order) ==
    /\ Record(i, order)
    /\ Return(i, None)

\* what a single-order strategy does with the outcome of its order request
SingleOrderSubmitted(i, order) ==
    /\ Record(i, order)
    /\ Return(i, IF order.ok THEN order ELSE None)

place_market_order_start(i) ==
    /\ At(i, "start") /\ args[i].strategy = "market"
    /\ CallValidate(i, float(args[i].quantity), None)
    /\ UNCHANGED <<shared, raw_client, args, hist, result>>

place_market_order_validated(i) ==
    /\ At(i, "lookup") /\ args[i].strategy = "market"
    /\ SingleOrderValidated(i, Validation(i))
    /\ UNCHANGED <<shared, raw_client, args, loc>>

place_market_order_submit(i) ==
    /\ At(i, "submit") /\ args[i].strategy = "market"
    /\ \E ok \in BOOLEAN :
          SingleOrderSubmitted(i,
              OrderEvent(i, args[i].side, "MARKET", None, None, None, ok))
    /\ UNCHANGED <<shared, raw_client, args, loc>>

place_market_order(i) ==
    \/ place_market_order_start(i)
    \/ place_market_order_validated(i)
    \/ place_market_order_submit(i)

\* limit_orders.py is not among the sources: after the specification's
\* "Limit: 1 order, type=LIMIT, price required, time-in-force (default GTC);
\* same as Market"
place_limit_order_start(i) ==
    /\ At(i, "start") /\ args[i].strategy = "limit"
    /\ CallValidate(i, float(args[i].quantity), float(args[i].price))
    /\ UNCHANGED <<shared, raw_client, args, hist, result>>

place_limit_order_validated(i) ==
    /\ At(i, "lookup") /\ args[i].strategy = "limit"
    /\ SingleOrderValidated(i, Validation(i))
    /\ UNCHANGED <<shared, raw_client, args, loc>>

place_limit_order_submit(i) ==
    /\ At(i, "submit") /\ args[i].strategy = "limit"
    /\ \E ok \in BOOLEAN :
          SingleOrderSubmitted(i,
              OrderEvent(i, args[i].side, "LIMIT", loc[i].price, None, "GTC", ok))
    /\ UNCHANGED <<shared, raw_client, args, loc>>

place_limit_order(i) ==
    \/ place_limit_order_start(i)
    \/ place_limit_order_validated(i)
    \/ place_limit_order_submit(i)

\* place_stop_limit_order_start validating the stop price
place_stop_limit_order_start_stop(i) ==
    /\ At(i, "start") /\ args[i].strategy = "stop_limit"
    /\ CallValidate(i, float(args[i].quantity), float(args[i].stop_price))
    /\ UNCHANGED <<shared, raw_client, args, hist, result>>

place_stop_limit_order_start(i) ==
    /\ At(i, "start") /\ args[i].strategy = "stop_limit"
    /\ CallValidate(i, float(args[i].quantity), float(args[i].limit_price))
    /\ UNCHANGED <<shared, raw_client, args, hist, result>>

place_stop_limit_order_validated(i) ==
    /\ At(i, "lookup") /\ args[i].strategy = "stop_limit"
    /\ SingleOrderValidated(i, Validation(i))
    /\ UNCHANGED <<shared, raw_client, args, loc>>

place_stop_limit_order_submit(i) ==
    /\ At(i, "submit") /\ args[i].strategy = "stop_limit"
    /\ \E ok \in BOOLEAN :
          SingleOrderSubmitted(i,
              OrderEvent(i, args[i].side, "STOP", float(args[i].limit_price),
                         float(args[i].stop_price), "GTC", ok))
    /\ UNCHANGED <<shared, raw_client, args, loc>>

place_stop_limit_order(i) ==
    \/ place_stop_limit_order_start(i)
    \/ place_stop_limit_order_validated(i)
    \/ place_stop_limit_order_submit(i)

(***************************************************************************)
(* place_oco_order: both prices are validated (the second only when the     *)
(* first passes), then the take-profit and the stop order are requested.    *)
(***************************************************************************)
place_oco_order_start(i) ==
    /\ At(i, "start") /\ args[i].strategy = "oco"
    /\ SetLocals(i, [loc[i] EXCEPT !.quantity = float(args[i].quantity),
                                   !.price = float(args[i].take_profit),
                                   !.leg = "take_profit"])
    /\ Goto(i, "new_check")
    /\ UNCHANGED <<shared, raw_client, args, hist, result>>

place_oco_order_validated(i) ==
    /\ At(i, "lookup") /\ args[i].strategy = "oco"
    /\ LET v == Validation(i)
       IN  /\ Record(i, ValidateEvent(i, v))
           /\ IF ~v.ok
              THEN Return(i, None) /\ UNCHANGED loc
              ELSE IF loc[i].leg = "take_profit"
              THEN /\ SetLocals(i, [loc[i] EXCEPT !.price = float(args[i].stop_loss),
                                                  !.leg = "stop_loss"])
                   /\ Goto(i, "new_check")
                   /\ UNCHANGED result
              ELSE /\ SetLocals(i, [loc[i] EXCEPT !.leg = "take_profit"])
                   /\ Goto(i, "submit")
                   /\ UNCHANGED result
    /\ UNCHANGED <<shared, raw_client, args>>

\* OppositeSide giving the side of the entry itself
OppositeSide_entry(side) == side

OppositeSide(side) == IF side = "BUY" THEN "SELL" ELSE "BUY"

place_oco_order_submit(i) ==
    /\ At(i, "submit") /\ args[i].strategy = "oco"
    /\ \E ok \in BOOLEAN :
          IF loc[i].leg = "take_profit"
          THEN LET tp_order == OrderEvent(i, OppositeSide(args[i].side), "TAKE_PROFIT",
                                          None, float(args[i].take_profit), None, ok)
               IN  /\ Record(i, tp_order)
                   /\ IF ok
                      THEN /\ SetLocals(i, [loc[i] EXCEPT !.leg = "stop_loss",
                                                          !.orders = <<tp_order>>])
                           /\ UNCHANGED <<pc, result>>
                      ELSE Return(i, None) /\ UNCHANGED loc
          ELSE LET sl_order == OrderEvent(i, OppositeSide(args[i].side), "STOP",
                                          None, float(args[i].stop_loss), None, ok)
               IN  /\ Record(i, sl_order)
                   /\ Return(i, IF ok THEN Append(loc[i].orders, sl_order) ELSE None)
                   /\ UNCHANGED loc
    /\ UNCHANGED <<shared, raw_client, args>>

place_oco_order(i) ==
    \/ place_oco_order_start(i)
    \/ place_oco_order_validated(i)
    \/ place_oco_order_submit(i)

(***************************************************************************)
(* place_twap_order                                                        *)
(***************************************************************************)
place_twap_order_start(i) ==
    /\ At(i, "start") /\ args[i].strategy = "twap"
    /\ IF args[i].interval_seconds = 0
       THEN Raise(i, "ZeroDivisionError") /\ UNCHANGED loc
       ELSE IF num_intervals(args[i]) = 0
       THEN Return(i, None) /\ UNCHANGED loc
       ELSE /\ SetLocals(i, [loc[i] EXCEPT !.n = num_intervals(args[i]),
                                           !.i = 0,
                                           !.quantity = TwapQuantity[args[i]]])
            /\ Goto(i, "new_check")
            /\ UNCHANGED result
    /\ UNCHANGED <<shared, raw_client, args, hist>>

place_twap_order_validated(i) ==
    /\ At(i, "lookup") /\ args[i].strategy = "twap"
    /\ LET v == Validation(i)
       IN  /\ Record(i, ValidateEvent(i, v))
           /\ IF ~v.ok
              THEN Return(i, None)
              ELSE Goto(i, "submit") /\ UNCHANGED result
    /\ UNCHANGED <<shared, raw_client, args, loc>>

\* place_twap_order_submit with a request that raised made again
place_twap_order_submit_retry(i) ==
    /\ At(i, "submit") /\ args[i].strategy = "twap"
    /\ \E ok \in BOOLEAN :
          /\ Record(i, OrderEvent(i, args[i].side, "MARKET", None, None, None, ok))
          /\ IF ~ok
             THEN UNCHANGED <<pc, result>>
             ELSE IF loc[i].i < loc[i].n - 1
             THEN Goto(i, "sleep") /\ UNCHANGED result
             ELSE Return(i, None)
    /\ UNCHANGED <<shared, raw_client, args, loc>>

\* the request of sub-order i; it is followed by the sleep, or by the end of
\* the function, which returns nothing
place_twap_order_submit(i) ==
    /\ At(i, "submit") /\ args[i].strategy = "twap"
    /\ \E ok \in BOOLEAN :
          Record(i, OrderEvent(i, args[i].side, "MARKET", None, None, None, ok))
    /\ IF loc[i].i < loc[i].n - 1
       THEN Goto(i, "sleep") /\ UNCHANGED result
       ELSE Return(i, None)
    /\ UNCHANGED <<shared, raw_client, args, loc>>

\* place_twap_order_sleep without the call of time.sleep
place_twap_order_sleep_none(i) ==
    /\ At(i, "sleep") /\ args[i].strategy = "twap"
    /\ SetLocals(i, [loc[i] EXCEPT !.i = @ + 1])
    /\ Goto(i, "new_check")
    /\ UNCHANGED <<shared, raw_client, args, hist, result>>

\* time.sleep(interval_seconds) returns and the loop goes on
place_twap_order_sleep(i) ==
    /\ At(i, "sleep") /\ args[i].strategy = "twap"
    /\ Record(i, [ev |-> "sleep", seconds |-> args[i].interval_seconds])
    /\ SetLocals(i, [loc[i] EXCEPT !.i = @ + 1])
    /\ Goto(i, "new_check")
    /\ UNCHANGED <<shared, raw_client, args, result>>

\* A shutdown signal reaches the process while invocation i is in
\* time.sleep.  Signal handlers run in the main thread; the invocation has
\* no cancellation input and its sleep is not a wait on one, so it sleeps on
place_twap_order_signal(i) ==
    /\ At(i, "sleep") /\ args[i].strategy = "twap"
    /\ \A k \in DOMAIN hist[i] : hist[i][k].ev # "signal"
    /\ Record(i, [ev |-> "signal"])
    /\ UNCHANGED <<shared, raw_client, args, pc, loc, result>>

place_twap_order(i) ==
    \/ place_twap_order_start(i)
    \/ place_twap_order_validated(i)
    \/ place_twap_order_submit(i)
    \/ place_twap_order_sleep(i)
    \/ place_twap_order_signal(i)

(***************************************************************************)
(* place_grid_orders                                                       *)
(***************************************************************************)
\* GridLevel walking the levels from the upper bound down
GridLevel_descending(i, l, k) ==
    [l EXCEPT !.i = k,
              !.price = GridPrice[args[i]][args[i].num_levels - 1 - k],
              !.side = GridSide[args[i]][args[i].num_levels - 1 - k]]

\* the locals at the top of the loop body for level k
GridLevel(i, l, k) ==
    [l EXCEPT !.i = k, !.price = GridPrice[args[i]][k], !.side = GridSide[args[i]][k]]

\* place_grid_orders_start without the test of num_levels: one level divides
\* by zero, no level leaves the loop empty and returns the empty list
place_grid_orders_start_unguarded(i) ==
    /\ At(i, "start") /\ args[i].strategy = "grid"
    /\ IF args[i].num_levels = 1
       THEN Raise(i, "ZeroDivisionError") /\ UNCHANGED loc
       ELSE IF args[i].num_levels < 1
       THEN Return(i, << >>) /\ UNCHANGED loc
       ELSE /\ SetLocals(i, GridLevel(i,
                   [loc[i] EXCEPT !.n = args[i].num_levels,
                                  !.quantity = float(args[i].quantity_per_level)], 0))
            /\ Goto(i, "new_check")
            /\ UNCHANGED result
    /\ UNCHANGED <<shared, raw_client, args, hist>>

place_grid_orders_start(i) ==
    /\ At(i, "start") /\ args[i].strategy = "grid"
    /\ IF args[i].num_levels <= 1
       THEN Return(i, None) /\ UNCHANGED loc
       ELSE /\ SetLocals(i, GridLevel(i,
                   [loc[i] EXCEPT !.n = args[i].num_levels,
                                  !.quantity = float(args[i].quantity_per_level)], 0))
            /\ Goto(i, "new_check")
            /\ UNCHANGED result
    /\ UNCHANGED <<shared, raw_client, args, hist>>

place_grid_orders_validated(i) ==
    /\ At(i, "lookup") /\ args[i].strategy = "grid"
    /\ LET v == Validation(i)
       IN  /\ Record(i, ValidateEvent(i, v))
           /\ IF ~v.ok
              THEN Return(i, None)
              ELSE Goto(i, "submit") /\ UNCHANGED result
    /\ UNCHANGED <<shared, raw_client, args, loc>>

place_grid_orders_submit(i) ==
    /\ At(i, "submit") /\ args[i].strategy = "grid"
    /\ \E ok \in BOOLEAN :
          LET order  == OrderEvent(i, loc[i].side, "LIMIT", loc[i].price, None, "GTC", ok)
              orders == IF ok THEN Append(loc[i].orders, order) ELSE loc[i].orders
          IN  /\ Record(i, order)
              /\ IF loc[i].i + 1 < loc[i].n
                 THEN /\ SetLocals(i, GridLevel(i, [loc[i] EXCEPT !.orders = orders],
                                                loc[i].i + 1))
                      /\ Goto(i, "new_check")
                      /\ UNCHANGED result
                 ELSE /\ SetLocals(i, [loc[i] EXCEPT !.orders = orders])
                      /\ Return(i, orders)
    /\ UNCHANGED <<shared, raw_client, args>>

place_grid_orders(i) ==
    \/ place_grid_orders_start(i)
    \/ place_grid_orders_validated(i)
    \/ place_grid_orders_submit(i)

(***************************************************************************)
(* validate_input called by itself: it returns whether the input is valid.  *)
(***************************************************************************)
validate_input_start(i) ==
    /\ At(i, "start") /\ args[i].strategy = "validate_input"
    /\ CallValidate(i, float(args[i].quantity), OptFloat(args[i].price))
    /\ UNCHANGED <<shared, raw_client, args, hist, result>>

validate_input_return(i) ==
    /\ At(i, "lookup") /\ args[i].strategy = "validate_input"
    /\ Record(i, ValidateEvent(i, Validation(i)))
    /\ Return(i, Validation(i).ok)
    /\ UNCHANGED <<shared, raw_client, args, loc>>

validate_input_call(i) ==
    \/ validate_input_start(i)
    \/ validate_input_return(i)

Next ==
    \E i \in Invocations :
        \/ ExchangeInfo_new(i)
        \/ place_market_order(i)
        \/ place_limit_order(i)
        \/ place_stop_limit_order(i)
        \/ place_oco_order(i)
        \/ place_twap_order(i)
        \/ place_grid_orders(i)

Spec == Init /\ [][Next]_vars

(***************************************************************************)
(* validate_input by itself: one caller, any of the direct calls.           *)
(***************************************************************************)
InitValidate ==
    /\ instance = None
    /\ info = None
    /\ fetchlog = << >>
    /\ running = TRUE
    /\ raw_client \in {"binance.client.Client", "MockClient"}
    /\ args \in {[i \in Invocations |-> a] : a \in DirectInputs}
    /\ pc = [i \in Invocations |-> IF i = 1 THEN "start" ELSE "done"]
    /\ loc = [i \in Invocations |-> NoLocals]
    /\ hist = [i \in Invocations |-> << >>]
    /\ result = [i \in Invocations |-> None]

NextValidate ==
    \E i \in Invocations :
        \/ ExchangeInfo_new(i)
        \/ validate_input_call(i)

SpecValidate == InitValidate /\ [][NextValidate]_vars

(***************************************************************************)
(* place_twap_order by itself: one caller, any of the TWAP calls.           *)
(***************************************************************************)
InitTwap ==
    /\ instance = None
    /\ info = None
    /\ fetchlog = << >>
    /\ running = TRUE
    /\ raw_client \in {"binance.client.Client", "MockClient"}
    /\ args \in {[i \in Invocations |-> a] : a \in TwapAloneInputs}
    /\ pc = [i \in Invocations |-> IF i = 1 THEN "start" ELSE "done"]
    /\ loc = [i \in Invocations |-> NoLocals]
    /\ hist = [i \in Invocations |-> << >>]
    /\ result = [i \in Invocations |-> None]

NextTwap ==
    \E i \in Invocations :
        \/ ExchangeInfo_new(i)
        \/ place_twap_order(i)

SpecTwap == InitTwap /\ [][NextTwap]_vars

(***************************************************************************)
(* place_trade, the endpoint POST /trade of app.py: one request, answered   *)
(* by a response or by an HTTPException that carries the status code.       *)
(***************************************************************************)
\* the body of the request that leads to the strategy call a
RequestOf(a) ==
    CASE a.strategy = "market" ->
            [strategy |-> "manual", symbol |-> a.symbol, side |-> a.side,
             amount |-> a.quantity]
      [] a.strategy = "limit" ->
            [strategy |-> "manual", symbol |-> a.symbol, side |-> a.side,
             amount |-> a.quantity, price |-> a.price]
      [] a.strategy = "stop_limit" ->
            [strategy |-> "stop-limit", symbol |-> a.symbol, side |-> a.side,
             amount |-> a.quantity, stop_price |-> a.stop_price,
             limit_price |-> a.limit_price]
      [] a.strategy = "oco" ->
            [strategy |-> "oco", symbol |-> a.symbol, side |-> a.side,
             amount |-> a.quantity, tp |-> a.take_profit, sl |-> a.stop_loss]
      [] a.strategy = "twap" ->
            [strategy |-> "twap", symbol |-> a.symbol, side |-> a.side,
             amount |-> a.total_quantity, duration |-> a.duration_minutes,
             interval |-> a.interval_seconds]
      [] a.strategy = "grid" ->
            [strategy |-> "grid", symbol |-> a.symbol, amount |-> a.quantity_per_level,
             lower_bound |-> a.lower_bound, upper_bound |-> a.upper_bound,
             num_levels |-> a.num_levels]

\* the request bodies: those of the strategy calls, a manual one with price
\* 0, one without "strategy", one with an empty and two with an unknown
\* strategy name, and one that lacks fields of its strategy
TradeRequests ==
    {RequestOf(a) : a \in StrategyInputs}
    \cup {[strategy |-> "manual", symbol |-> "BTCUSDT", side |-> "BUY",
           amount |-> Dec(2, 1000), price |-> Dec(0, 1)],
          [symbol |-> "BTCUSDT", side |-> "BUY", amount |-> Dec(2, 1000)],
          [strategy |-> "", symbol |-> "BTCUSDT", side |-> "BUY",
           amount |-> Dec(2, 1000)],
          [strategy |-> "scalp", symbol |-> "BTCUSDT", side |-> "BUY",
           amount |-> Dec(2, 1000)],
          [strategy |-> "TWAP", symbol |-> "BTCUSDT", side |-> "BUY",
           amount |-> Dec(4, 1000), duration |-> 1, interval |-> 30],
          [strategy |-> "twap", symbol |-> "BTCUSDT", side |-> "BUY",
           amount |-> Dec(4, 1000)]}

\* the required fields of the request model of each strategy
RequiredFields(strategy) ==
    CASE strategy = "manual" -> {"strategy", "side", "symbol", "amount"}
      [] strategy = "twap" ->
            {"strategy", "side", "symbol", "amount", "duration", "interval"}
      [] strategy = "oco" -> {"strategy", "side", "symbol", "amount", "tp", "sl"}
      [] strategy = "grid" ->
            {"strategy", "symbol", "amount", "lower_bound", "upper_bound",
             "num_levels"}
      [] strategy = "stop-limit" ->
            {"strategy", "side", "symbol", "amount", "stop_price", "limit_price"}

\* the strategy call that place_trade makes for the validated request r
StrategyCall(r) ==
    CASE r.strategy = "manual" ->
            IF "price" \notin DOMAIN r \/ r.price.n = 0
            THEN [strategy |-> "market", symbol |-> r.symbol, side |-> r.side,
                  quantity |-> r.amount]
            ELSE [strategy |-> "limit", symbol |-> r.symbol, side |-> r.side,
                  quantity |-> r.amount, price |-> r.price]
      [] r.strategy = "twap" ->
            [strategy |-> "twap", symbol |-> r.symbol, side |-> r.side,
             total_quantity |-> r.amount, duration_minutes |-> r.duration,
             interval_seconds |-> r.interval]
      [] r.strategy = "oco" ->
            [strategy |-> "oco", symbol |-> r.symbol, side |-> r.side,
             quantity |-> r.amount, take_profit |-> r.tp, stop_loss |-> r.sl]
      [] r.strategy = "grid" ->
            [strategy |-> "grid", symbol |-> r.symbol, lower_bound |-> r.lower_bound,
             upper_bound |-> r.upper_bound, num_levels |-> r.num_levels,
             quantity_per_level |-> r.amount]
      [] r.strategy = "stop-limit" ->
            [strategy |-> "stop_limit", symbol |-> r.symbol, side |-> r.side,
             quantity |-> r.amount, stop_price |-> r.stop_price,
             limit_price |-> r.limit_price]

\* the strategy names place_trade dispatches on
StrategyNames == {"manual", "twap", "oco", "grid", "stop-limit"}

\* raise HTTPException(status_code, detail) leaves place_trade
HTTPException(status_code, detail) == [status_code |-> status_code, detail |-> detail]

\* an exception raised inside the try block of place_trade: the handler
\* catches every Exception, HTTPException included, and raises the 500
Caught(exception) == HTTPException(500, "Internal server error: " \o exception)

\* strategy = request.get("strategy") passes the test "if not strategy":
\* the field is there and is not the empty string
Specified(r) == "strategy" \in DOMAIN r /\ r.strategy # ""

\* what place_trade does with the request r up to the strategy call: the
\* call to make, or the exception that answers the request
Dispatch(r) ==
    IF ~Specified(r)
    THEN [raised |-> HTTPException(400, "Strategy not specified.")]
    ELSE IF r.strategy \notin StrategyNames
    THEN [raised |-> Caught("400: Invalid strategy.")]
    ELSE IF ~(RequiredFields(r.strategy) \subseteq DOMAIN r)
    THEN [raised |-> Caught("ValidationError")]
    ELSE [call |-> StrategyCall(r)]

\* the request arrives: it is answered at once, or the strategy is called
place_trade_start(i) ==
    /\ At(i, "request")
    /\ Record(i, [ev |-> "request", specified |-> Specified(args[i]),
                   strategy |-> IF Specified(args[i]) THEN args[i].strategy ELSE ""])
    /\ IF "raised" \in DOMAIN Dispatch(args[i])
       THEN /\ pc' = [pc EXCEPT ![i] = "responded"]
            /\ result' = [result EXCEPT ![i] = Dispatch(args[i]).raised]
            /\ UNCHANGED args
       ELSE /\ args' = [args EXCEPT ![i] = Dispatch(args[i]).call]
            /\ Goto(i, "start")
            /\ UNCHANGED result
    /\ UNCHANGED <<shared, raw_client, loc>>

\* "if result": None and the empty list count as false; an order and a
\* list that holds orders count as true
Truth(i) == ToString(result[i]) \notin {ToString(None), ToString(<< >>)}

\* the strategy has returned: the response tells success from error
place_trade_respond(i) ==
    /\ At(i, "done")
    /\ pc' = [pc EXCEPT ![i] = "responded"]
    /\ result' = [result EXCEPT ![i] =
                     IF Truth(i)
                     THEN [status_code |-> 200, status |-> "success", details |-> @]
                     ELSE [status_code |-> 200, status |-> "error"]]
    /\ UNCHANGED <<shared, raw_client, args, loc, hist>>

place_trade(i) ==
    \/ place_trade_start(i)
    \/ place_trade_respond(i)

InitTrade ==
    /\ instance = None
    /\ info = None
    /\ fetchlog = << >>
    /\ running = TRUE
    /\ raw_client \in {"binance.client.Client", "MockClient"}
    /\ args \in {[i \in Invocations |-> r] : r \in TradeRequests}
    /\ pc = [i \in Invocations |-> IF i = 1 THEN "request" ELSE "responded"]
    /\ loc = [i \in Invocations |-> NoLocals]
    /\ hist = [i \in Invocations |-> << >>]
    /\ result = [i \in Invocations |-> None]

NextTrade ==
    \E i \in Invocations :
        \/ place_trade(i)
        \/ ExchangeInfo_new(i)
        \/ place_market_order(i)
        \/ place_limit_order(i)
        \/ place_stop_limit_order(i)
        \/ place_oco_order(i)
        \/ place_twap_order(i)
        \/ place_grid_orders(i)

SpecTrade == InitTrade /\ [][NextTrade]_vars

(***************************************************************************)
(* Properties.  hist[i] is read as the record of what invocation i did.     *)
(***************************************************************************)
\* the positions in hist[i] of the events of one kind
EventsOf(i, kind) == {k \in DOMAIN hist[i] : hist[i][k].ev = kind}

\* the price an order request carries: its price or, without one, its trigger
OrderPrice(o) == IF o.price # None THEN o.price ELSE o.stopPrice

\* the symbols of the exchange's symbol list
ListedSymbols == {ExchangeData.symbols[k].symbol : k \in DOMAIN ExchangeData.symbols}

SameSubOrder(v, o) ==
    v.symbol = o.symbol /\ v.quantity = o.quantity /\ v.price = OrderPrice(o)

\* C1: in the market, stop-limit, bracket, TWAP and grid strategies every
\* order request was preceded, in its invocation, by a validation of its
\* symbol, quantity and price that passed, and by no validation of them that
\* failed
C1_OrderAfterPassedValidation ==
    \A i \in Invocations :
        args[i].strategy \in {"market", "stop_limit", "oco", "twap", "grid"} =>
            \A k \in EventsOf(i, "order") :
                /\ \E j \in EventsOf(i, "validate") :
                      j < k /\ hist[i][j].ok /\ SameSubOrder(hist[i][j], hist[i][k])
                /\ \A j \in EventsOf(i, "validate") :
                      j < k /\ SameSubOrder(hist[i][j], hist[i][k]) => hist[i][j].ok

\* a bracket invocation has requested both its orders, and a market
\* invocation has ended on a failed validation
C1_Witness ==
    /\ \E i \in Invocations :
          args[i].strategy = "oco" /\ Cardinality(EventsOf(i, "order")) = 2
    /\ \E i \in Invocations :
          /\ args[i].strategy = "market" /\ pc[i] = "done"
          /\ \E k \in EventsOf(i, "validate") : ~hist[i][k].ok

\* C2: a validation of a symbol that is not in the exchange's symbol list
\* fails as "Invalid symbol", whatever the quantity and the price, and an
\* invocation with such a symbol makes no order request
C2_UnknownSymbol ==
    \A i \in Invocations :
        args[i].symbol \notin ListedSymbols =>
            /\ EventsOf(i, "order") = {}
            /\ \A k \in EventsOf(i, "validate") :
                  ~hist[i][k].ok /\ hist[i][k].log = "Invalid symbol"

\* a market invocation with an unlisted symbol and a quantity off the step has
\* ended, validated against the fetched list
C2_Witness ==
    \E i \in Invocations :
        /\ args[i].strategy = "market" /\ args[i].symbol \notin ListedSymbols
        /\ args[i].quantity = Dec(25, 10000)
        /\ pc[i] = "done"
        /\ \E k \in EventsOf(i, "validate") : hist[i][k].populated

\* C3: once the exchange data is cached, no step fetches it again or changes
\* what is cached
C3_NoFetchAfterInitialization ==
    [][info # None => fetchlog' = fetchlog /\ info' = info]_vars

\* C4: when the first fetch of the exchange data fails, the process ends
C4_FailedFetchEndsProcess ==
    (fetchlog # << >> /\ fetchlog[1] = "error") => ~running

\* C5: after a failed first fetch no order request is made and the fetch is
\* not attempted again
C5_NothingAfterFailedFetch ==
    (fetchlog # << >> /\ fetchlog[1] = "error") =>
        /\ Len(fetchlog) = 1
        /\ \A i \in Invocations : EventsOf(i, "order") = {}

\* C6: the exchange data is fetched at most once, however the invocations
\* interleave
C6_FetchedAtMostOnce == Len(fetchlog) <= 1

(***************************************************************************)
(* The checks of spec and exchange on the numbers themselves: a text n/d as *)
(* a whole number of units of 1/Unit.                                      *)
(***************************************************************************)
Unit == 10^4

Units(s) == s.n * (Unit \div s.d)

LotSizeOf(a) == lot_size_filter(get_symbol_info(ExchangeData, a.symbol))

PriceFilterOf(a) == price_filter(get_symbol_info(ExchangeData, a.symbol))

InRange(x, min, max) == Units(min) <= Units(x) /\ Units(x) <= Units(max)

OnStep(x, min, step) == (Units(x) - Units(min)) % Units(step) = 0

QuantityInRange(a) ==
    InRange(a.quantity, LotSizeOf(a).minQty, LotSizeOf(a).maxQty)

QuantityOnStep(a) ==
    OnStep(a.quantity, LotSizeOf(a).minQty, LotSizeOf(a).stepSize)

PriceInRange(a) ==
    InRange(a.price, PriceFilterOf(a).minPrice, PriceFilterOf(a).maxPrice)

PriceOnTick(a) ==
    OnStep(a.price, PriceFilterOf(a).minPrice, PriceFilterOf(a).tickSize)

\* the error of the first check that the arguments a violate, "" when none
FirstViolated(a) ==
    IF a.symbol \notin ListedSymbols THEN "Invalid symbol"
    ELSE IF ~QuantityInRange(a) THEN "Invalid quantity"
    ELSE IF ~QuantityOnStep(a) THEN "Invalid quantity step"
    ELSE IF a.price = None THEN ""
    ELSE IF ~PriceInRange(a) THEN "Invalid price"
    ELSE IF ~PriceOnTick(a) THEN "Invalid price tick size"
    ELSE ""

\* the calls of validate_input by itself that have returned
Returned == {i \in Invocations : args[i].strategy = "validate_input" /\ pc[i] = "done"
                                   /\ EventsOf(i, "validate") # {}}

\* C7: for a listed symbol and no price, validate_input returns True exactly
\* when minQty <= quantity <= maxQty and quantity - minQty is a whole number
\* of steps
C7_QuantityRule ==
    \A i \in Returned :
        args[i].symbol \in ListedSymbols /\ args[i].price = None =>
            (result[i] <=> QuantityInRange(args[i]) /\ QuantityOnStep(args[i]))

\* C8: validate_input reports the error of the first check violated, in the
\* order symbol, quantity range, quantity step, price range, price tick, and
\* none when no check is violated
C8_FirstViolatedReported ==
    \A i \in Returned :
        \A k \in EventsOf(i, "validate") : hist[i][k].log = FirstViolated(args[i])

\* C9: for a listed symbol, a price that is given, zero included, and is out
\* of [minPrice, maxPrice] or off the tick makes validate_input return False
C9_GivenPriceChecked ==
    \A i \in Returned :
        /\ args[i].symbol \in ListedSymbols
        /\ args[i].price # None
        /\ ~(PriceInRange(args[i]) /\ PriceOnTick(args[i]))
        => ~result[i]

\* C10: a market, limit or stop-limit invocation whose validation failed has
\* made no order request and returns no order; one whose validation passed
\* has made exactly one order request and returns what the request returned:
\* the order, or nothing when the request raised
C10_SingleOrder ==
    \A i \in Invocations :
        args[i].strategy \in {"market", "limit", "stop_limit"} /\ pc[i] = "done" =>
            \A k \in EventsOf(i, "validate") :
                IF hist[i][k].ok
                THEN /\ Cardinality(EventsOf(i, "order")) = 1
                     /\ \A j \in EventsOf(i, "order") :
                           result[i] = IF hist[i][j].ok THEN hist[i][j] ELSE None
                ELSE /\ EventsOf(i, "order") = {}
                     /\ result[i] = None

\* a stop-limit invocation has returned the order it requested, and a market
\* invocation has ended on a failed validation
C10_Witness ==
    /\ \E i \in Invocations :
          /\ args[i].strategy = "stop_limit" /\ pc[i] = "done"
          /\ result[i] # None /\ result[i].type = "STOP"
    /\ \E i \in Invocations :
          /\ args[i].strategy = "market" /\ pc[i] = "done" /\ result[i] = None
          /\ \E k \in EventsOf(i, "validate") :
                ~hist[i][k].ok /\ hist[i][k].log = "Invalid quantity step"

(***************************************************************************)
(* The strategies of several orders.                                       *)
(***************************************************************************)
\* the events of hist[i] of one kind, in order
Events(i, kind) == SelectSeq(hist[i], LAMBDA e : e.ev = kind)

\* the take-profit leg of bracket invocation i failed: its validation did not
\* pass or its order request raised
TakeProfitFailed(i) ==
    \/ \E k \in EventsOf(i, "validate") :
          hist[i][k].price = float(args[i].take_profit) /\ ~hist[i][k].ok
    \/ \E k \in EventsOf(i, "order") :
          hist[i][k].type = "TAKE_PROFIT" /\ ~hist[i][k].ok

\* C11: a bracket invocation whose take-profit leg failed, at validation or
\* at submission, has all the same validated its stop-loss leg and, when that
\* validation passed, requested the stop order, and it returns an outcome
\* for the two legs rather than nothing
C11_BothLegsAttempted ==
    \A i \in Invocations :
        args[i].strategy = "oco" /\ pc[i] = "done" /\ TakeProfitFailed(i) =>
            /\ \E k \in EventsOf(i, "validate") :
                  /\ hist[i][k].price = float(args[i].stop_loss)
                  /\ hist[i][k].ok => \E j \in EventsOf(i, "order") :
                                          hist[i][j].type = "STOP"
            /\ result[i] # None

\* floor(durationMinutes*60 / intervalSeconds) for the arguments a
PlannedIntervals(a) == (a.duration_minutes * 60) \div a.interval_seconds

\* every validation of invocation i so far passed and every order request
\* created its order
AllSucceeded(i) ==
    /\ \A k \in EventsOf(i, "validate") : hist[i][k].ok
    /\ \A k \in EventsOf(i, "order") : hist[i][k].ok

\* C12: a TWAP invocation whose duration holds no whole interval makes no
\* validation and no order request and returns nothing; one that holds
\* n >= 1 intervals and has ended with n passed validations and no failed
\* request has made exactly n requests, each a MARKET order for
\* total_quantity / n
C12_TwapSchedule ==
    \A i \in Invocations :
        args[i].strategy = "twap" /\ args[i].interval_seconds # 0 =>
            LET n == PlannedIntervals(args[i])
            IN  IF n = 0
                THEN hist[i] = << >> /\ result[i] = None
                ELSE /\ pc[i] = "done"
                     /\ AllSucceeded(i)
                     /\ Cardinality(EventsOf(i, "validate")) = n
                     => /\ Cardinality(EventsOf(i, "order")) = n
                        /\ \A k \in EventsOf(i, "order") :
                              /\ hist[i][k].type = "MARKET"
                              /\ hist[i][k].price = None
                              /\ hist[i][k].quantity = TwapQuantity[args[i]]

\* a TWAP invocation of three intervals has ended with its three orders
\* created, and one whose interval is longer than its duration has ended
C12_Witness ==
    /\ \E i \in Invocations :
          /\ args[i].strategy = "twap" /\ pc[i] = "done"
          /\ args[i].interval_seconds = 20
          /\ AllSucceeded(i)
          /\ Cardinality(EventsOf(i, "order")) = 3
    /\ \E i \in Invocations :
          /\ args[i].strategy = "twap" /\ pc[i] = "done"
          /\ args[i].interval_seconds = 120

\* no call of futures_exchange_info() has raised
NoFetchFailed == \A k \in DOMAIN fetchlog : fetchlog[k] = "ok"

\* C13: a TWAP invocation of n >= 1 intervals that has ended, the exchange
\* data having been fetched, has validated each of its n sub-orders, whatever
\* the outcome of the validations and requests before, and has requested
\* every sub-order whose validation passed
C13_TwapContinues ==
    \A i \in Invocations :
        /\ args[i].strategy = "twap" /\ args[i].interval_seconds # 0
        /\ PlannedIntervals(args[i]) >= 1
        /\ pc[i] = "done" /\ NoFetchFailed
        => /\ Cardinality(EventsOf(i, "validate")) = PlannedIntervals(args[i])
           /\ Cardinality(EventsOf(i, "order")) =
                  Cardinality({k \in EventsOf(i, "validate") : hist[i][k].ok})

\* C14: a grid invocation with num_levels <= 1 never enters validate_input,
\* makes no order request and returns nothing
C14_GridTooFewLevels ==
    \A i \in Invocations :
        args[i].strategy = "grid" /\ args[i].num_levels <= 1 =>
            /\ pc[i] \in {"start", "done"}
            /\ hist[i] = << >>
            /\ result[i] = None

\* a grid invocation with one level and one with no level have ended
C14_Witness ==
    /\ \E i \in Invocations :
          args[i].strategy = "grid" /\ args[i].num_levels = 1 /\ pc[i] = "done"
    /\ \E i \in Invocations :
          args[i].strategy = "grid" /\ args[i].num_levels = 0 /\ pc[i] = "done"

\* The grid as the specification plans it, in whole units of 1/Unit: the
\* price of level k of the arguments a is LevelUnits(a, k) / (num_levels - 1)
LevelUnits(a, k) ==
    (a.num_levels - 1) * Units(a.lower_bound)
        + k * (Units(a.upper_bound) - Units(a.lower_bound))

\* BUY strictly below the midpoint (lower_bound + upper_bound) / 2, else SELL
PlannedSide(a, k) ==
    IF 2 * LevelUnits(a, k)
           < (a.num_levels - 1) * (Units(a.lower_bound) + Units(a.upper_bound))
    THEN "BUY"
    ELSE "SELL"

\* the float of the price of each level
PlannedPrice ==
    [a \in {x \in GridInputs : x.num_levels > 1} |->
        [k \in 0..(a.num_levels - 1) |->
            FromDecimal(LevelUnits(a, k), (a.num_levels - 1) * Unit)]]

\* C15: a grid invocation with num_levels > 1 works on a level k of
\* 0 .. num_levels - 1 at the price lower_bound + k * (upper_bound -
\* lower_bound) / (num_levels - 1), with side BUY when that price is strictly
\* below the midpoint of the bounds and SELL otherwise, the midpoint itself
\* included, and every order it requests is a LIMIT order of such a level
C15_GridPlan ==
    \A i \in Invocations :
        args[i].strategy = "grid" /\ args[i].num_levels > 1 =>
            /\ pc[i] \notin {"start", "done"} =>
                  /\ loc[i].i \in 0..(args[i].num_levels - 1)
                  /\ loc[i].price = PlannedPrice[args[i]][loc[i].i]
                  /\ loc[i].side = PlannedSide(args[i], loc[i].i)
            /\ \A k \in EventsOf(i, "order") :
                  /\ hist[i][k].type = "LIMIT"
                  /\ \E l \in 0..(args[i].num_levels - 1) :
                        /\ hist[i][k].price = PlannedPrice[args[i]][l]
                        /\ hist[i][k].side = PlannedSide(args[i], l)

\* the orders that the requests of invocation i created, in order
Placed(i) == SelectSeq(Events(i, "order"), LAMBDA o : o.ok)

\* C16: a grid invocation with num_levels > 1 that has ended, the exchange
\* data having been fetched, has validated every one of its levels, whatever
\* failed before, has requested every level whose validation passed, and
\* returns the list of the orders that were created
C16_GridContinues ==
    \A i \in Invocations :
        /\ args[i].strategy = "grid" /\ args[i].num_levels > 1
        /\ pc[i] = "done" /\ NoFetchFailed
        => /\ Cardinality(EventsOf(i, "validate")) = args[i].num_levels
           /\ Cardinality(EventsOf(i, "order")) =
                  Cardinality({k \in EventsOf(i, "validate") : hist[i][k].ok})
           /\ result[i] = Placed(i)

\* the orders that the value returned by invocation i holds
ReportedOrders(i) ==
    IF result[i] = None THEN {}
    ELSE IF args[i].strategy \in {"oco", "grid"}
    THEN {result[i][k] : k \in DOMAIN result[i]}
    ELSE {result[i]}

\* C17: when a strategy invocation has ended, every order that its requests
\* created on the exchange is in the value it returned
C17_CreatedOrdersReported ==
    \A i \in Invocations :
        args[i].strategy # "validate_input" /\ pc[i] = "done" =>
            \A k \in EventsOf(i, "order") :
                hist[i][k].ok => hist[i][k] \in ReportedOrders(i)

\* r is an error of one of the two classes of the gateway
Classified(r) ==
    /\ r # None
    /\ "error" \in DOMAIN r
    /\ r.error \in {"ExchangeRejected", "TransportError"}

\* C18: when a strategy invocation has ended after an order request of its
\* own raised, the value it returned is not the nothing that a failed
\* validation returns: it is a classified error for a single-order strategy
\* and holds one for a strategy of several orders
C18_FailuresClassified ==
    \A i \in Invocations :
        /\ args[i].strategy # "validate_input" /\ pc[i] = "done"
        /\ \E k \in EventsOf(i, "order") : ~hist[i][k].ok
        => /\ result[i] # None
           /\ IF args[i].strategy \in {"market", "limit", "stop_limit"}
              THEN Classified(result[i])
              ELSE \E k \in DOMAIN result[i] : Classified(result[i][k])

\* the number of sub-orders that the arguments a plan
Planned(a) ==
    CASE a.strategy \in {"market", "limit", "stop_limit"} -> 1
      [] a.strategy = "oco" -> 2
      [] a.strategy = "twap" ->
            IF a.interval_seconds = 0 THEN 0 ELSE PlannedIntervals(a)
      [] a.strategy = "grid" -> IF a.num_levels > 1 THEN a.num_levels ELSE 0

\* the order requests of invocation i so far that were for order o
RequestsFor(i, o) ==
    {k \in EventsOf(i, "order") : hist[i][k] = [o EXCEPT !.ok = hist[i][k].ok]}

\* C19: an invocation makes no more order requests than it plans sub-orders,
\* and at most one for each: one request of each type in a bracket, one for
\* each interval begun in a TWAP, one for each level in a grid, also when
\* requests raised
C19_NoRetry ==
    \A i \in Invocations :
        args[i].strategy # "validate_input" =>
            /\ Cardinality(EventsOf(i, "order")) <= Planned(args[i])
            /\ args[i].strategy = "oco" =>
                  \A t \in {"TAKE_PROFIT", "STOP"} :
                      Cardinality({k \in EventsOf(i, "order") : hist[i][k].type = t}) <= 1
            /\ args[i].strategy = "twap" =>
                  Cardinality(EventsOf(i, "order")) <= Cardinality(EventsOf(i, "sleep")) + 1
            /\ args[i].strategy = "grid" =>
                  \A k \in EventsOf(i, "order") :
                      Cardinality(RequestsFor(i, hist[i][k])) = 1

\* a TWAP invocation of three intervals has ended after its first request
\* raised, and a grid invocation of three levels after a request of it raised
C19_Witness ==
    /\ \E i \in Invocations :
          /\ args[i].strategy = "twap" /\ pc[i] = "done"
          /\ Cardinality(EventsOf(i, "order")) = 3
          /\ ~Events(i, "order")[1].ok
    /\ \E i \in Invocations :
          /\ args[i].strategy = "grid" /\ pc[i] = "done"
          /\ Cardinality(EventsOf(i, "order")) = 3
          /\ \E k \in EventsOf(i, "order") : ~hist[i][k].ok

\* the indices that the order request at position k of hist[i] can be for:
\* in a TWAP the interval begun, one more after each sleep; in a grid the
\* levels at the price of the request
IndicesOf(i, k) ==
    IF args[i].strategy = "twap"
    THEN {Cardinality({j \in EventsOf(i, "sleep") : j < k})}
    ELSE {l \in DOMAIN GridPrice[args[i]] : GridPrice[args[i]][l] = hist[i][k].price}

\* the order requests of invocation i that returned before position k
ReturnedBefore(i, k) == {j \in EventsOf(i, "order") : j < k}

\* C20: in a TWAP or grid invocation the requests are made one after the
\* other in the order of the indices: the request made after m others have
\* returned is the one for index m, and the invocation stands at a request
\* for index m only when the requests for 0 .. m - 1 have returned
C20_InIndexOrder ==
    \A i \in Invocations :
        args[i].strategy \in {"twap", "grid"} =>
            /\ \A k \in EventsOf(i, "order") :
                  IndicesOf(i, k) = {Cardinality(ReturnedBefore(i, k))}
            /\ pc[i] = "submit" => loc[i].i = Cardinality(EventsOf(i, "order"))

\* a grid invocation of three levels has ended after its request for level 1
\* raised, and a TWAP invocation stands at its third request
C20_Witness ==
    /\ \E i \in Invocations :
          /\ args[i].strategy = "grid" /\ pc[i] = "done"
          /\ Cardinality(EventsOf(i, "order")) = 3
          /\ ~Events(i, "order")[2].ok
    /\ \E i \in Invocations :
          /\ args[i].strategy = "twap" /\ pc[i] = "submit"
          /\ Cardinality(EventsOf(i, "order")) = 2

\* the structural precondition of the strategies of several orders
PreconditionHolds(a) ==
    CASE a.strategy = "oco" -> TRUE
      [] a.strategy = "twap" ->
            a.interval_seconds # 0 /\ PlannedIntervals(a) >= 1
      [] a.strategy = "grid" -> a.num_levels > 1
      [] OTHER -> FALSE

\* C21: a bracket, TWAP or grid invocation whose precondition holds is
\* completed, the exchange data having been fetched, only when every
\* sub-order it plans has been attempted, that is validated: no failure of a
\* sub-order ends it before the last one
C21_CompletedAfterAllAttempted ==
    \A i \in Invocations :
        PreconditionHolds(args[i]) /\ pc[i] = "done" /\ NoFetchFailed =>
            Cardinality(EventsOf(i, "validate")) = Planned(args[i])

\* the order requests and the waits of invocation i, in order
Schedule(i) == SelectSeq(hist[i], LAMBDA e : e.ev \in {"order", "sleep"})

\* C22: in a TWAP invocation order requests and waits alternate, beginning
\* with a request, and every wait is of interval_seconds; an invocation that
\* has ended with all its n requests made has waited n - 1 times, so once
\* after each request but the last, whether the request raised or not
C22_WaitBetweenSubOrders ==
    \A i \in Invocations :
        args[i].strategy = "twap" =>
            /\ \A k \in DOMAIN Schedule(i) :
                  IF k % 2 = 1
                  THEN Schedule(i)[k].ev = "order"
                  ELSE /\ Schedule(i)[k].ev = "sleep"
                       /\ Schedule(i)[k].seconds = args[i].interval_seconds
            /\ pc[i] = "done" /\ Cardinality(EventsOf(i, "order")) = Planned(args[i])
                  => Len(Schedule(i)) = 2 * Planned(args[i]) - 1
                         \/ Planned(args[i]) = 0

\* a TWAP invocation of three intervals has ended with its three requests
\* made, the second of which raised
C22_Witness ==
    \E i \in Invocations :
        /\ args[i].strategy = "twap" /\ pc[i] = "done"
        /\ Cardinality(EventsOf(i, "order")) = 3
        /\ ~Events(i, "order")[2].ok
        /\ Cardinality(EventsOf(i, "sleep")) = 2

\* C23: after a shutdown signal has arrived during a wait of a TWAP
\* invocation, the invocation makes no order request
C23_SignalEndsSchedule ==
    \A i \in Invocations :
        args[i].strategy = "twap" =>
            \A k \in EventsOf(i, "signal") :
                \A j \in EventsOf(i, "order") : j < k

\* C24: every request of a bracket invocation creates an order, never
\* cancels one: a TAKE_PROFIT order triggered at take_profit or a STOP order
\* triggered at stop_loss, on the side opposite to the side given and for the
\* whole quantity given
C24_BracketLegs ==
    \A i \in Invocations :
        args[i].strategy = "oco" =>
            /\ \A k \in DOMAIN hist[i] : hist[i][k].ev \in {"validate", "order"}
            /\ \A k \in EventsOf(i, "order") :
                  /\ hist[i][k].side # args[i].side
                  /\ hist[i][k].side \in {"BUY", "SELL"}
                  /\ hist[i][k].quantity = float(args[i].quantity)
                  /\ \/ /\ hist[i][k].type = "TAKE_PROFIT"
                        /\ hist[i][k].stopPrice = float(args[i].take_profit)
                     \/ /\ hist[i][k].type = "STOP"
                        /\ hist[i][k].stopPrice = float(args[i].stop_loss)

\* a bracket for a SELL entry and one for a BUY entry have both requested
\* their two orders, the stop order of the first having raised
C24_Witness ==
    /\ \E i \in Invocations :
          /\ args[i].strategy = "oco" /\ args[i].side = "SELL" /\ pc[i] = "done"
          /\ Cardinality(EventsOf(i, "order")) = 2
          /\ \E k \in EventsOf(i, "order") : hist[i][k].type = "STOP" /\ ~hist[i][k].ok
    /\ \E i \in Invocations :
          /\ args[i].strategy = "oco" /\ args[i].side = "BUY" /\ pc[i] = "done"
          /\ Cardinality(EventsOf(i, "order")) = 2

\* stop-limit invocations i and j differ at most in the stop price
SameButStopPrice(i, j) ==
    /\ args[i].strategy = "stop_limit" /\ args[j].strategy = "stop_limit"
    /\ args[i].symbol = args[j].symbol
    /\ args[i].quantity = args[j].quantity
    /\ args[i].limit_price = args[j].limit_price

\* C25: a stop-limit invocation validates its quantity with its limit price,
\* two invocations that differ in the stop price only get the same outcome
\* from validations against the same cache, and the order requested is a
\* STOP order with the stop price as stopPrice and the limit price as price
C25_StopLimit ==
    \A i \in Invocations :
        args[i].strategy = "stop_limit" =>
            /\ \A k \in EventsOf(i, "validate") :
                  /\ hist[i][k].quantity = float(args[i].quantity)
                  /\ hist[i][k].price = float(args[i].limit_price)
                  /\ \A j \in Invocations : \A l \in EventsOf(j, "validate") :
                        /\ SameButStopPrice(i, j)
                        /\ hist[i][k].populated = hist[j][l].populated
                        => hist[i][k].ok = hist[j][l].ok
            /\ Cardinality(EventsOf(i, "order")) <= 1
            /\ \A k \in EventsOf(i, "order") :
                  /\ hist[i][k].type = "STOP"
                  /\ hist[i][k].quantity = float(args[i].quantity)
                  /\ hist[i][k].stopPrice = float(args[i].stop_price)
                  /\ hist[i][k].price = float(args[i].limit_price)

\* a stop-limit invocation with a stop price off the tick and one with a stop
\* price on it, alike otherwise, have both requested their order
C25_Witness ==
    \E i, j \in Invocations :
        /\ SameButStopPrice(i, j)
        /\ args[i].stop_price = Dec(5, 1000) /\ args[j].stop_price = Dec(5, 100)
        /\ EventsOf(i, "order") # {} /\ EventsOf(j, "order") # {}

\* C26: as long as no fetch of the exchange data has failed, every
\* validation of a listed symbol has read a populated cache and has not
\* reported the symbol as invalid, however the invocations interleave
C26_NoUnpopulatedRead ==
    NoFetchFailed =>
        \A i \in Invocations : \A k \in EventsOf(i, "validate") :
            hist[i][k].symbol \in ListedSymbols =>
                hist[i][k].populated /\ hist[i][k].log # "Invalid symbol"

\* -1, 0, 1 as k quantities of x, added as real numbers, come to less than
\* y, to y, or to more than y
SumCmp(k, x, y) ==
    BCmp(BNorm(BShl(BMulSmall(x.m, k), x.e - FMinExp(x, y))),
         BNorm(BShl(y.m, y.e - FMinExp(x, y))))

\* the same for the sub-order quantity and the total_quantity of every TWAP
\* call of the model, computed once
TwapSumCmp ==
    [a \in DOMAIN TwapQuantity |->
        [k \in 0..num_intervals(a) |->
            SumCmp(k, TwapQuantity[a], float(a.total_quantity))]]

\* C27: in a TWAP invocation the quantities of the order requests made so
\* far never add up to more than total_quantity, and when all n requests
\* have been made and have created their orders they add up to
\* total_quantity
C27_TwapSumWithinTotal ==
    \A i \in Invocations :
        args[i].strategy = "twap" /\ EventsOf(i, "order") # {} =>
            /\ \A k \in EventsOf(i, "order") :
                  hist[i][k].quantity = TwapQuantity[args[i]]
            /\ TwapSumCmp[args[i]][Cardinality(EventsOf(i, "order"))] <= 0
            /\ AllSucceeded(i) /\ Cardinality(EventsOf(i, "order")) = Planned(args[i])
                  => TwapSumCmp[args[i]][Planned(args[i])] = 0

\* C28: a trade request whose strategy name is none of manual, twap, oco,
\* grid, stop-limit is answered with status 400 and "Invalid strategy.",
\* the status that also answers a request without a strategy, and has led
\* to no validation and no order request
C28_InvalidStrategyRejected ==
    \A i \in Invocations :
        /\ pc[i] = "responded" /\ hist[i] # << >>
        /\ hist[i][1].strategy \notin StrategyNames
        => /\ result[i].status_code = 400
           /\ hist[i][1].specified => result[i].detail = "Invalid strategy."
           /\ EventsOf(i, "validate") = {} /\ EventsOf(i, "order") = {}
====
